---- MODULE Spec2Model ----
(***************************************************************************)
(* TradeLogic: the analysis-request contract (InputForm, analyzeStock),    *)
(* the case archive (App: saveToVault, removeFromVault, export, import)    *)
(* and the consistency engine (runConsistencyCheck).                       *)
(*                                                                         *)
(* JavaScript objects are TLA+ records whose DOMAIN is the set of          *)
(* properties the object has: a property that is absent is absent from    *)
(* the DOMAIN.  {...c, id: v} is ("id" :> v) @@ c.                          *)
(***************************************************************************)
EXTENDS Integers, Sequences, FiniteSets, TLC

VARIABLES
    \* ---- App (the archive and what surrounds it)
    vaultCases,     \* useState<AnalysisResult[]>: the in-memory archive
    storedVault,    \* localStorage 'tradeLogic_cases': <<>> or <<text>>
    reader,         \* the FileReader of an import in progress: <<>> or <<r>>
    alertMsg,       \* the last alert() shown: <<>> or the parts of its text
    downloaded,     \* the file handleExportVault last saved: <<>> or <<text>>
    selectedIds,    \* CaseVault's useState<Set<string>>, in insertion order
    uuidCount,      \* how many values crypto.randomUUID() has returned
    now,            \* the clock read by Date.now()
    \* ---- geminiService (one invocation of analyzeStock / runConsistencyCheck)
    gwPc,           \* "idle" | "awaiting" | "returned" | "thrown"
    gwOp,           \* "none" | "analyze" | "consistency"
    gwInput,        \* the argument of the invocation
    gwCalls,        \* the requests handed to ai.models.generateContent
    gwResponse,     \* what the inference service answered: <<>> or <<r>>
    gwResult,       \* the value the invocation returned: <<>> or <<v>>
    \* ---- InputForm
    formData,       \* useState<StockAnalysisInput>
    step,           \* useState(1): the wizard step shown
    submitted,      \* the input handed to props.onSubmit: <<>> or <<input>>
    formPc,         \* the form's last submit event: "idle" (none since the
                    \* last other event) | "handed" | "ignored"
    capitalWarning, \* useState<string | null>(null): <<>> or <<message>>
    storedDraft,    \* localStorage DRAFT_KEY: <<>> or <<text>>
    \* ---- App (the views, the analysis on screen, the two busy flags)
    view,           \* useState('LAB'): "LAB" | "VAULT" | "CONFIG"
    loading,        \* useState(false): an analysis is being awaited
    analysis,       \* useState<AnalysisResult | null>(null): <<>> or <<result>>
    error,          \* useState<string | null>(null): <<>> or <<message>>
    pending,        \* the handleAnalysisSubmit invocations at their await
    checkingConsistency,    \* useState(false)
    consistencyResult       \* useState<ConsistencyResult | null>(null)

appVars  == <<vaultCases, storedVault, reader, alertMsg, downloaded, selectedIds>>
envVars  == <<uuidCount, now>>
gwVars   == <<gwPc, gwOp, gwInput, gwCalls, gwResponse, gwResult>>
formVars == <<formData, step, submitted, formPc, capitalWarning, storedDraft>>
uiVars   == <<view, loading, analysis, error, pending, checkingConsistency,
             consistencyResult>>
vars     == <<appVars, envVars, gwVars, formVars, uiVars>>

(***************************************************************************)
(* Bounds of the model.                                                    *)
(***************************************************************************)
MaxVault == 2       \* the archive holds at most this many entries
MaxUuid == 3        \* crypto.randomUUID() is drawn at most this many times
MaxClock == 2       \* Date.now() ranges over 1..MaxClock

Tickers == {"BBCA", "TLKM"}

\* The values crypto.randomUUID() returns, in the order it returns them:
\* pairwise distinct, and distinct from every id that comes from elsewhere.
UuidPool == <<"uuid-1", "uuid-2", "uuid-3", "uuid-4", "uuid-5", "uuid-6",
              "uuid-7", "uuid-8">>
randomUUID(n) == UuidPool[n]

Some(v) == <<v>>
None == <<>>

(***************************************************************************)
(* JSON.  A JSON value is tagged with its kind; a text either parses to a  *)
(* JSON value or does not parse.  JSON.stringify(v, null, 2) and           *)
(* JSON.stringify(v) give different texts that parse to the same value.    *)
(***************************************************************************)
JObj(o) == [t |-> "obj", o |-> o]
JArr(items) == [t |-> "arr", items |-> items]
JNull == [t |-> "null"]
JNum == [t |-> "num"]

ToJson(cases) == JArr([i \in 1..Len(cases) |-> JObj(cases[i])])
JSONstringify(cases, indent) ==
    [wellFormed |-> TRUE, indent |-> indent, json |-> ToJson(cases)]
Garbage == [wellFormed |-> FALSE]

\* JSON.parse(text) throws on a text that is not JSON
ParseThrows(text) == ~text.wellFormed
JSONparse(text) == text.json
IsArray(json) == json.t = "arr"

(***************************************************************************)
(* Archive entries and import files.                                       *)
(***************************************************************************)
HasId(c) == "id" \in DOMAIN c /\ c.id # ""
HasTimestamp(c) == "timestamp" \in DOMAIN c

\* item.id || item.ticker
IdentityKey(c) == IF HasId(c) THEN c.id ELSE c.ticker

\* What analyzeStock resolves to for a response about ticker t
GatewayResult(t, id, ts) == [id |-> id, timestamp |-> ts, ticker |-> t]

\* The contents a user can pick for an import, besides the app's own export
LegacyEntry == [ticker |-> "BBCA", timestamp |-> 1]
ForeignEntry == [id |-> "ext-1", ticker |-> "TLKM", timestamp |-> 1]
UntimedEntry == [id |-> "ext-2", ticker |-> "BBCA"]
Malformed == [foo |-> "bar"]

FileOf(json) == [wellFormed |-> TRUE, indent |-> 2, json |-> json]
FixedFiles ==
    { FileOf(JArr(<<JObj(LegacyEntry)>>)),
      FileOf(JArr(<<JObj(ForeignEntry)>>)),
      FileOf(JArr(<<JObj(UntimedEntry)>>)),
      FileOf(JArr(<<JObj(ForeignEntry), JObj(Malformed)>>)),
      FileOf(JArr(<<JObj(ForeignEntry), JNull>>)),
      FileOf(JObj(ForeignEntry)),
      FileOf(JNull),
      Garbage }

\* A record of the archive's shape: what an import is specified to accept
ResultShaped(j) ==
    j.t = "obj" /\ {"ticker", "timestamp"} \subseteq DOMAIN j.o

(***************************************************************************)
(* handleImportVault's json.map(c => ({ ...c, id: c.id || randomUUID() })) *)
(***************************************************************************)
\* c.id throws a TypeError when c is null
MapThrows(items) == \E i \in 1..Len(items) : items[i].t = "null"

\* c.id is falsy: the element is not an object, or has no (or an empty) id
LacksId(j) == j.t # "obj" \/ ~HasId(j.o)

\* {...c}: the own properties of an object; none for a number
SpreadOf(j) == IF j.t = "obj" THEN j.o ELSE <<>>

\* how many randomUUID() calls the map makes up to and including element i
DrawsUpTo(items, i) == Cardinality({k \in 1..i : LacksId(items[k])})

\* every element re-keyed: id: crypto.randomUUID()
ImportMapRekeys(items, n) ==
    [i \in 1..Len(items) |-> ("id" :> randomUUID(n + i)) @@ SpreadOf(items[i])]

ImportMap(items, n) ==
    [i \in 1..Len(items) |->
        IF LacksId(items[i])
        THEN ("id" :> randomUUID(n + DrawsUpTo(items, i))) @@ SpreadOf(items[i])
        ELSE SpreadOf(items[i])]

(***************************************************************************)
(* CaseVault: the selection                                                *)
(***************************************************************************)
InSelection(selected, id) == \E k \in 1..Len(selected) : selected[k] = id

\* the effect left out: the selection is kept whatever the cases are
KeepSelection(selected, cases) == selected

\* the selection sync effect: the ids some case has are kept, in order
SyncSelection(selected, cases) ==
    SelectSeq(selected,
              LAMBDA id : \E i \in 1..Len(cases) : IdentityKey(cases[i]) = id)

(***************************************************************************)
(* App: the archive                                                        *)
(***************************************************************************)
\* the spread written last: the result's own id and timestamp win
UniqueResultKeepsOwn(result, id, ts) == result @@ ("id" :> id) @@ ("timestamp" :> ts)

\* the entry saveToVault builds from the result it is given
UniqueResult(result, id, ts) == ("id" :> id) @@ ("timestamp" :> ts) @@ result

\* saveToVault(result)
SaveToVault(result) ==
    /\ Len(vaultCases) < MaxVault
    /\ uuidCount < MaxUuid
    /\ uuidCount' = uuidCount + 1
    /\ LET newCases == <<UniqueResult(result, randomUUID(uuidCount + 1), now)>>
                           \o vaultCases
       IN  /\ vaultCases' = newCases
           /\ storedVault' = Some(JSONstringify(newCases, 0))
    /\ alertMsg' = <<"Snapshot archived to Vault successfully.">>
    /\ selectedIds' = <<>>      \* the card is in the LAB view: no CaseVault
    /\ UNCHANGED <<reader, downloaded, now, gwVars, formVars, uiVars>>

\* AnalysisCard's "Save Case" on a result analyzeStock has just returned:
\* analyzeStock drew the result's id, saveToVault draws the entry's
SaveFresh(t) ==
    /\ uuidCount + 1 < MaxUuid
    /\ LET result == GatewayResult(t, randomUUID(uuidCount + 1), now) IN
       /\ Len(vaultCases) < MaxVault
       /\ uuidCount' = uuidCount + 2
       /\ LET newCases == <<UniqueResult(result, randomUUID(uuidCount + 2), now)>>
                              \o vaultCases
          IN  /\ vaultCases' = newCases
              /\ storedVault' = Some(JSONstringify(newCases, 0))
    /\ alertMsg' = <<"Snapshot archived to Vault successfully.">>
    /\ selectedIds' = <<>>      \* the card is in the LAB view: no CaseVault
    /\ UNCHANGED <<reader, downloaded, now, gwVars, formVars, uiVars>>

\* "View" on an archived case (onLoadCase), then "Save Case" on its card
SaveLoaded(i) ==
    /\ i \in 1..Len(vaultCases)
    /\ SaveToVault(vaultCases[i])

\* the test inverted: vaultCases.filter(c => c.id === id)
FilterKeep(cases, id) ==
    SelectSeq(cases, LAMBDA c : "id" \in DOMAIN c /\ c.id = id)

\* vaultCases.filter(c => c.id !== id)
FilterOut(cases, id) ==
    SelectSeq(cases, LAMBDA c : ~("id" \in DOMAIN c /\ c.id = id))

\* removeFromVault(id)
RemoveFromVault(id) ==
    /\ LET newCases == FilterOut(vaultCases, id)
       IN  /\ vaultCases' = newCases
           /\ storedVault' = Some(JSONstringify(newCases, 0))
           /\ selectedIds' = SyncSelection(selectedIds, newCases)
    /\ UNCHANGED <<reader, alertMsg, downloaded, envVars, gwVars, formVars, uiVars>>

\* the keys removeFromVault is called with: CaseVault's delete buttons pass
\* item.id || item.ticker; the last one is a key no entry has
RemoveKeys ==
    {IdentityKey(vaultCases[i]) : i \in 1..Len(vaultCases)} \cup {"no-such-id"}

\* handleExportVault: the text of the file it offers for download
ExportedFile == JSONstringify(vaultCases, 2)

\* the files a user can pick: the fixed ones and, when the archive is not
\* empty (the export button exists), the file just exported
PickableFiles ==
    FixedFiles \cup (IF Len(vaultCases) > 0 THEN {ExportedFile} ELSE {})

\* handleImportVault: the file is handed to a FileReader whose onload closes
\* over the vaultCases of the render in which the file was picked
HandleImportVault(file) ==
    /\ reader = None
    /\ reader' = Some([file |-> file, vaultCases |-> vaultCases])
    /\ UNCHANGED <<vaultCases, storedVault, alertMsg, downloaded, selectedIds, envVars, gwVars, formVars, uiVars>>

\* the elements json.map visits before c.id throws on a null element
BeforeThrow(items) ==
    IF MapThrows(items)
    THEN (CHOOSE i \in 1..Len(items) :
              items[i].t = "null" /\ \A k \in 1..(i - 1) : items[k].t # "null") - 1
    ELSE Len(items)

\* an onload that empties the archive when it rejects the file
ReaderOnloadClears ==
    /\ reader # None
    /\ reader' = None
    /\ LET r == reader[1] IN
       IF ParseThrows(r.file)
       THEN /\ alertMsg' = <<"Invalid JSON file.">>
            /\ vaultCases' = <<>>
            /\ storedVault' = Some(JSONstringify(<<>>, 0))
            /\ selectedIds' = <<>>
            /\ UNCHANGED uuidCount
       ELSE LET json == JSONparse(r.file) IN
            IF ~IsArray(json)
            THEN /\ vaultCases' = <<>>
                 /\ storedVault' = Some(JSONstringify(<<>>, 0))
                 /\ selectedIds' = <<>>
                 /\ UNCHANGED <<uuidCount, alertMsg>>
            ELSE LET draws == DrawsUpTo(json.items, BeforeThrow(json.items)) IN
                 /\ uuidCount + draws <= MaxUuid
                 /\ uuidCount' = uuidCount + draws
                 /\ IF MapThrows(json.items)
                    THEN /\ alertMsg' = <<"Invalid JSON file.">>
                         /\ UNCHANGED <<vaultCases, storedVault, selectedIds>>
                    ELSE LET merged == r.vaultCases \o ImportMap(json.items, uuidCount) IN
                         /\ Len(merged) <= MaxVault
                         /\ vaultCases' = merged
                         /\ selectedIds' = SyncSelection(selectedIds, merged)
                         /\ storedVault' = Some(JSONstringify(merged, 0))
                         /\ alertMsg' = <<"Successfully imported ", Len(json.items), " cases.">>
    /\ UNCHANGED <<downloaded, now, gwVars, formVars, uiVars>>

\* reader.onload
ReaderOnload ==
    /\ reader # None
    /\ reader' = None
    /\ LET r == reader[1] IN
       IF ParseThrows(r.file)
       THEN /\ alertMsg' = <<"Invalid JSON file.">>
            /\ UNCHANGED <<vaultCases, storedVault, uuidCount, selectedIds>>
       ELSE LET json == JSONparse(r.file) IN
            IF ~IsArray(json)
            THEN UNCHANGED <<vaultCases, storedVault, uuidCount, alertMsg, selectedIds>>
            ELSE LET draws == DrawsUpTo(json.items, BeforeThrow(json.items)) IN
                 /\ uuidCount + draws <= MaxUuid
                 /\ uuidCount' = uuidCount + draws
                 /\ IF MapThrows(json.items)
                    THEN /\ alertMsg' = <<"Invalid JSON file.">>
                         /\ UNCHANGED <<vaultCases, storedVault, selectedIds>>
                    ELSE LET merged == r.vaultCases \o ImportMap(json.items, uuidCount) IN
                         /\ Len(merged) <= MaxVault
                         /\ vaultCases' = merged
                         /\ selectedIds' = SyncSelection(selectedIds, merged)
                         /\ storedVault' = Some(JSONstringify(merged, 0))
                         /\ alertMsg' = <<"Successfully imported ", Len(json.items), " cases.">>
    /\ UNCHANGED <<downloaded, now, gwVars, formVars, uiVars>>

\* time passes
Tick ==
    /\ now < MaxClock
    /\ now' = now + 1
    /\ UNCHANGED <<appVars, uuidCount, gwVars, formVars, uiVars>>

(***************************************************************************)
(* The archive: the state after construction and the next-state relation.  *)
(***************************************************************************)
GwIdle ==
    /\ gwPc = "idle" /\ gwOp = "none" /\ gwInput = None
    /\ gwCalls = <<>> /\ gwResponse = None /\ gwResult = None

\* App's useState initial values
UiIdle ==
    /\ view = "LAB" /\ loading = FALSE /\ analysis = None /\ error = None
    /\ pending = 0 /\ checkingConsistency = FALSE /\ consistencyResult = None

FormIdle ==
    /\ formData = <<>> /\ step = 1 /\ submitted = None /\ formPc = "idle"
    /\ capitalWarning = None /\ storedDraft = None

InitVault ==
    /\ vaultCases = <<>>
    /\ storedVault = None
    /\ reader = None
    /\ alertMsg = <<>>
    /\ downloaded = None
    /\ selectedIds = <<>>
    /\ uuidCount = 0
    /\ now = 1
    /\ GwIdle
    /\ FormIdle
    /\ UiIdle

NextVault ==
    \/ \E t \in Tickers : SaveFresh(t)
    \/ \E i \in 1..MaxVault : SaveLoaded(i)
    \/ \E id \in RemoveKeys : RemoveFromVault(id)
    \/ \E file \in PickableFiles : HandleImportVault(file)
    \/ ReaderOnload
    \/ Tick

SpecVault == InitVault /\ [][NextVault]_vars

\* The archive with files of other origin only (an entry without an id, an
\* entry with one, a value that is not an array, a text that is not JSON):
\* the app's own export is taken up again under SpecRoundTrip.
NextArchive ==
    \/ \E t \in Tickers : SaveFresh(t)
    \/ \E i \in 1..MaxVault : SaveLoaded(i)
    \/ \E id \in RemoveKeys : RemoveFromVault(id)
    \/ \E file \in {FileOf(JArr(<<JObj(LegacyEntry)>>)),
                     FileOf(JArr(<<JObj(ForeignEntry)>>)),
                     FileOf(JObj(ForeignEntry)), Garbage} : HandleImportVault(file)
    \/ ReaderOnload
    \/ Tick

SpecArchive == InitVault /\ [][NextArchive]_vars

(***************************************************************************)
(* App: the mount effect's load of the archive from localStorage, and the  *)
(* archive over page loads.                                                *)
(***************************************************************************)
\* item.timestamp is falsy: the element is not an object or has no timestamp
LacksTimestamp(j) == j.t # "obj" \/ ~HasTimestamp(j.o)

\* the load with no sanitizing: parsed.map(item => ({ ...item }))
LoadMapAsStored(items, n, ts) == [i \in 1..Len(items) |-> SpreadOf(items[i])]

\* parsed.map(item => ({ ...item, id: item.id || crypto.randomUUID(),
\*                       timestamp: item.timestamp || Date.now() }))
LoadMap(items, n, ts) ==
    [i \in 1..Len(items) |->
        ("id" :> (IF LacksId(items[i])
                  THEN randomUUID(n + DrawsUpTo(items, i))
                  ELSE items[i].o.id))
        @@ ("timestamp" :> (IF LacksTimestamp(items[i]) THEN ts
                            ELSE items[i].o.timestamp))
        @@ SpreadOf(items[i])]

\* the try block throws: JSON.parse on a text that is not JSON, parsed.map
\* on a value that is not an array, item.id on a null element
LoadThrows(text) ==
    \/ ParseThrows(text)
    \/ ~IsArray(JSONparse(text))
    \/ MapThrows(JSONparse(text).items)

\* what the mount effect makes of localStorage 'tradeLogic_cases': the state
\* is set only when nothing threw
LoadedCases(stored, n, ts) ==
    IF stored = None \/ LoadThrows(stored[1]) THEN <<>>
    ELSE LoadMap(JSONparse(stored[1]).items, n, ts)

\* the randomUUID() calls of the mount effect
LoadDraws(stored) ==
    IF stored = None \/ ParseThrows(stored[1]) \/ ~IsArray(JSONparse(stored[1]))
    THEN 0
    ELSE DrawsUpTo(JSONparse(stored[1]).items, BeforeThrow(JSONparse(stored[1]).items))

\* the page is loaded again: every useState starts over, the FileReader of
\* the page before is gone, localStorage is what it was
AppReload ==
    /\ uuidCount + LoadDraws(storedVault) <= MaxUuid
    /\ uuidCount' = uuidCount + LoadDraws(storedVault)
    /\ vaultCases' = LoadedCases(storedVault, uuidCount, now)
    /\ reader' = None
    /\ alertMsg' = <<>>
    /\ selectedIds' = <<>>
    /\ view' = "LAB" /\ loading' = FALSE /\ analysis' = None /\ error' = None
    /\ pending' = 0 /\ checkingConsistency' = FALSE /\ consistencyResult' = None
    /\ UNCHANGED <<storedVault, downloaded, now, gwVars, formVars>>

\* what localStorage 'tradeLogic_cases' holds when the app is first loaded:
\* nothing, an archive written before entries had ids, and a damaged text
StoredBefore == [wellFormed |-> TRUE, indent |-> 0,
                 json |-> JArr(<<JObj(LegacyEntry)>>)]
StoredAtStart == {None, Some(StoredBefore), Some(Garbage)}

\* the files picked for import
PersistFiles ==
    { FileOf(JArr(<<JObj(LegacyEntry)>>)),
      FileOf(JArr(<<JObj(UntimedEntry)>>)),
      FileOf(JArr(<<JObj([id |-> "", ticker |-> "TLKM", timestamp |-> 1])>>)),
      FileOf(JArr(<<JNum, JObj(ForeignEntry)>>)),
      FileOf(JArr(<<JObj(ForeignEntry), JNull>>)),
      Garbage }

\* the app after its first mount
InitPersist ==
    /\ storedVault \in StoredAtStart
    /\ vaultCases = LoadedCases(storedVault, 0, 1)
    /\ uuidCount = LoadDraws(storedVault)
    /\ now = 1
    /\ reader = None
    /\ alertMsg = <<>>
    /\ downloaded = None
    /\ selectedIds = <<>>
    /\ GwIdle
    /\ FormIdle
    /\ UiIdle

NextPersist ==
    \/ \E t \in Tickers : SaveFresh(t)
    \/ \E id \in RemoveKeys : RemoveFromVault(id)
    \/ \E file \in PersistFiles : HandleImportVault(file)
    \/ ReaderOnload
    \/ AppReload
    \/ Tick

SpecPersist == InitPersist /\ [][NextPersist]_vars

(***************************************************************************)
(* The archive, exported to a file and imported from it.                   *)
(***************************************************************************)
\* handleExportVault: the export button exists when the archive is not empty
HandleExportVault ==
    /\ Len(vaultCases) > 0
    /\ downloaded' = Some(ExportedFile)
    /\ UNCHANGED <<vaultCases, storedVault, reader, alertMsg, selectedIds, envVars, gwVars, formVars, uiVars>>

NextRoundTrip ==
    \/ \E t \in Tickers : SaveFresh(t)
    \/ \E i \in 1..MaxVault : SaveLoaded(i)
    \/ \E id \in RemoveKeys : RemoveFromVault(id)
    \/ HandleExportVault
    \/ \E file \in {downloaded[i] : i \in 1..Len(downloaded)} : HandleImportVault(file)
    \/ ReaderOnload

SpecRoundTrip == InitVault /\ [][NextRoundTrip]_vars

(***************************************************************************)
(* The vault view: selecting cases for the consistency check.              *)
(***************************************************************************)
\* selectedIds.has(item.id || item.ticker)
isSelected(item) == InSelection(selectedIds, IdentityKey(item))

\* cases.find(c => c.id === firstId || (!c.id && c.ticker === firstId)):
\* the positions that match
FoundAt(firstId) ==
    {i \in 1..Len(vaultCases) :
         \/ ("id" \in DOMAIN vaultCases[i] /\ vaultCases[i].id = firstId)
         \/ (~HasId(vaultCases[i]) /\ vaultCases[i].ticker = firstId)}

\* the ticker of the first case the first selected id finds, or null
activeTicker ==
    IF Len(selectedIds) = 0 \/ FoundAt(selectedIds[1]) = {} THEN None
    ELSE Some(vaultCases[CHOOSE i \in FoundAt(selectedIds[1]) :
                             \A k \in FoundAt(selectedIds[1]) : i <= k].ticker)

isDisabled(item) ==
    activeTicker # None /\ activeTicker[1] # item.ticker /\ ~isSelected(item)

\* a click on the card of the i-th case: !isDisabled && toggleSelection(item)
ToggleSelection(i) ==
    /\ i \in 1..Len(vaultCases)
    /\ ~isDisabled(vaultCases[i])
    /\ LET id == IdentityKey(vaultCases[i]) IN
       selectedIds' = IF InSelection(selectedIds, id)
                      THEN SelectSeq(selectedIds, LAMBDA k : k # id)
                      ELSE Append(selectedIds, id)
    /\ UNCHANGED <<vaultCases, storedVault, reader, alertMsg, downloaded,
                   envVars, gwVars, formVars, uiVars>>

\* the user leaves the vault view and comes back: CaseVault is mounted anew
VaultRemount ==
    /\ selectedIds # <<>>
    /\ selectedIds' = <<>>
    /\ UNCHANGED <<vaultCases, storedVault, reader, alertMsg, downloaded,
                   envVars, gwVars, formVars, uiVars>>

\* "Audit Trend": what the button hands to onRunConsistency
SelectedCases == SelectSeq(vaultCases, isSelected)

\* files for the vault view: cases from another copy of the app, one of them
\* also in a file where its ticker has been edited
RetitledEntry == [id |-> "ext-1", ticker |-> "BBCA", timestamp |-> 2]
ThirdEntry == [id |-> "ext-3", ticker |-> "TLKM", timestamp |-> 2]
SelectFiles ==
    { FileOf(JArr(<<JObj(ForeignEntry)>>)),
      FileOf(JArr(<<JObj(RetitledEntry)>>)),
      FileOf(JArr(<<JObj(ThirdEntry)>>)),
      FileOf(JArr(<<JObj(ForeignEntry), JObj(ThirdEntry)>>)) }

NextSelect ==
    \/ \E i \in 1..MaxVault : ToggleSelection(i)
    \/ VaultRemount
    \/ \E t \in Tickers : SaveFresh(t)
    \/ \E id \in RemoveKeys : RemoveFromVault(id)
    \/ \E file \in SelectFiles : HandleImportVault(file)
    \/ ReaderOnload

SpecSelect == InitVault /\ [][NextSelect]_vars

(***************************************************************************)
(* geminiService: texts.  A text is a sequence of pieces: a template's     *)
(* literal parts are single pieces, an interpolated string value is the    *)
(* sequence of its characters, so one text occurs in another when it is a  *)
(* contiguous subsequence of it.                                           *)
(***************************************************************************)
DigitChars == <<"0", "1", "2", "3", "4", "5", "6", "7", "8", "9">>

\* String(n) for a non-negative integer
RECURSIVE Decimal(_)
Decimal(n) ==
    IF n < 10 THEN <<DigitChars[n + 1]>>
    ELSE Decimal(n \div 10) \o <<DigitChars[(n % 10) + 1]>>

RiskProfiles == {"CONSERVATIVE", "BALANCED", "AGGRESSIVE"}
CapitalTiers == {"MICRO", "RETAIL", "HIGH_NET", "INSTITUTIONAL"}

riskInstruction(input) ==
    IF input.riskProfile = "CONSERVATIVE"
    THEN "RISK PROFILE: CONSERVATIVE (HAWK). Penalize high PBV/PER severely if Growth is < 15%. Require positive CFO. Be skeptical of unproven breakouts."
    ELSE IF input.riskProfile = "AGGRESSIVE"
    THEN "RISK PROFILE: AGGRESSIVE (BULL). Tolerate high Valuation if Growth > 20% or Momentum is very strong. Focus on Future Value over current metrics."
    ELSE "RISK PROFILE: BALANCED. Standard institutional weighting."

\* the template literal of analyzeStock
Prompt(input) ==
    <<"INSTITUTIONAL AUDIT REQUEST: ">> \o input.ticker \o <<" @ ">> \o input.price
    \o <<"CLIENT MANDATE: ", input.riskProfile>>
    \o <<"CLIENT CAPITAL: ">> \o input.capital
    \o <<" IDR (Tier selected: ", input.capitalTier, ")">>
    \o <<"[LOGIC INJECTION]", riskInstruction(input)>>
    \o <<"[FUNDAMENTAL DATA - AUDITED]">>
    \o <<"ROE: ">> \o input.fundamentals.roe
    \o <<"% | DER: ">> \o input.fundamentals.der
    \o <<"x | PBV: ">> \o input.fundamentals.pbv \o <<"x">>
    \o <<"PER: ">> \o input.fundamentals.per
    \o <<"x | CFO (Operating Cash): ">> \o input.fundamentals.cfo
    \o <<" | FCF (Free Cash): ">> \o input.fundamentals.fcf
    \o <<"[MARKET STRUCTURE DATA]">>
    \o <<"Bandar Score: ">> \o Decimal(input.bandarmology.brokerSummaryVal)
    \o <<" | Top Actors: ">> \o input.bandarmology.topBrokers
    \o <<" | Avg Cost: ">> \o input.bandarmology.bandarAvgPrice
    \o <<"Bid Depth: ">> \o input.bandarmology.orderBookBid
    \o <<"Offer Depth: ">> \o input.bandarmology.orderBookAsk
    \o <<"Haka (Aggressive Buy): ">> \o input.bandarmology.tradeBookAsk
    \o <<"Haki (Aggressive Sell): ">> \o input.bandarmology.tradeBookBid
    \o <<"[INTELLIGENCE REPORT]">> \o input.rawIntelligenceData

\* the decoding parameters of the two generateContent calls
Temperature == 0
TopK == 1
TopPTenths == 1         \* topP: 0.1
Seed == 42069

AnalyzeRequest(input) ==
    [model |-> "gemini-3-flash-preview",
     contents |-> Prompt(input),
     config |-> [systemInstruction |-> "SYSTEM_INSTRUCTION",
                 responseMimeType |-> "application/json",
                 responseSchema |-> "responseSchema",
                 temperature |-> Temperature,
                 topK |-> TopK,
                 topPTenths |-> TopPTenths,
                 seed |-> Seed]]

ConsistencyPrompt(sorted) ==
    <<"Analisa tren konsistensi untuk ", sorted[1].ticker, ". Data: ",
      JSONstringify(sorted, 0),
      ". Gunakan bahasa profesional dan berikan outlook trend jangka panjang.">>

ConsistencyRequest(sorted) ==
    [model |-> "gemini-3-flash-preview",
     contents |-> ConsistencyPrompt(sorted),
     config |-> [responseMimeType |-> "application/json",
                 responseSchema |-> "consistencySchema",
                 temperature |-> Temperature,
                 seed |-> Seed]]

(***************************************************************************)
(* The structured-output schemas handed to the inference service.          *)
(***************************************************************************)
RequiredKeys ==
    {"ticker", "priceInfo", "marketCapAnalysis", "supplyDemand", "prediction",
     "stressTest", "brokerAnalysis", "summary", "bearCase", "strategy",
     "fullAnalysis"}
CategoryEnum == {"Small Cap", "Mid Cap", "Big Cap", "UNKNOWN"}
DirectionEnum == {"UP", "DOWN", "CONSOLIDATE", "UNKNOWN"}
TimeframeEnum == {"SHORT", "MEDIUM", "LONG"}
StatusEnum == {"RECOMMENDED", "POSSIBLE", "FORBIDDEN"}
TrendEnum == {"IMPROVING", "STABLE", "DEGRADING", "VOLATILE"}

\* property k of object o, when o has it, takes one of the values
EnumOk(o, k, values) == k \in DOMAIN o => o[k] \in values

\* tradePlanSchema
TradePlanOk(o, k) == k \in DOMAIN o => EnumOk(o[k], "status", StatusEnum)

\* responseSchema: the required keys and the enumerated properties
MatchesResponseSchema(j) ==
    /\ j.t = "obj"
    /\ RequiredKeys \subseteq DOMAIN j.o
    /\ EnumOk(j.o.marketCapAnalysis, "category", CategoryEnum)
    /\ EnumOk(j.o.prediction, "direction", DirectionEnum)
    /\ EnumOk(j.o.strategy, "bestTimeframe", TimeframeEnum)
    /\ TradePlanOk(j.o.strategy, "shortTerm")
    /\ TradePlanOk(j.o.strategy, "mediumTerm")
    /\ TradePlanOk(j.o.strategy, "longTerm")

\* consistencySchema (it declares no required keys)
MatchesConsistencySchema(j) ==
    /\ j.t = "obj"
    /\ EnumOk(j.o, "trendVerdict", TrendEnum)

(***************************************************************************)
(* What the inference service can answer.                                  *)
(***************************************************************************)
Plan(status) ==
    [verdict |-> "ACCUMULATE", entry |-> "9000-9100", tp |-> "9800",
     sl |-> "8700", reasoning |-> "r", status |-> status]

GoodResponse(t) ==
    [ticker |-> t,
     priceInfo |-> [current |-> "9000", bandarAvg |-> "8900", diffPercent |-> 1,
                    status |-> "ABOVE"],
     marketCapAnalysis |-> [category |-> "Big Cap", behavior |-> "b"],
     supplyDemand |-> [bidStrength |-> 60, offerStrength |-> 40, verdict |-> "v"],
     prediction |-> [direction |-> "UP", probability |-> 70, reasoning |-> "r"],
     stressTest |-> [passed |-> TRUE, score |-> 80, details |-> "d"],
     brokerAnalysis |-> [classification |-> "c", insight |-> "i"],
     summary |-> "s",
     bearCase |-> "b",
     strategy |-> [bestTimeframe |-> "SHORT", shortTerm |-> Plan("RECOMMENDED"),
                   mediumTerm |-> Plan("POSSIBLE"), longTerm |-> Plan("FORBIDDEN")],
     fullAnalysis |-> "f"]

Without(o, k) == [x \in DOMAIN o \ {k} |-> o[x]]

\* responses that break the schema
BadResponses ==
    {Without(GoodResponse("BBCA"), k) : k \in RequiredKeys}
    \cup { [GoodResponse("BBCA") EXCEPT !.marketCapAnalysis.category = "Micro Cap"],
           [GoodResponse("BBCA") EXCEPT !.prediction.direction = "SIDEWAYS"],
           [GoodResponse("BBCA") EXCEPT !.strategy.bestTimeframe = "INTRADAY"],
           [GoodResponse("BBCA") EXCEPT !.strategy.mediumTerm.status = "MAYBE"] }

\* responses that carry identity fields of their own; an id in a response is
\* one the service made up or one of the n ids the app has drawn so far
StampedResponses(n) ==
    { ("id" :> i) @@ ("timestamp" :> ts) @@ GoodResponse("TLKM") :
          i \in {"resp-id"} \cup {randomUUID(k) : k \in 1..n},
          ts \in 1..MaxClock }
    \cup { ("id" :> "resp-id") @@ GoodResponse("TLKM"),
           ("timestamp" :> 1) @@ ("sources" :> <<"src">>) @@ GoodResponse("TLKM") }

Rejected == [kind |-> "reject"]
Answered(text) == [kind |-> "text", text |-> text]

AnalyzeResponses(n) ==
    {Rejected, Answered(Garbage), Answered(FileOf(JNull))}
    \cup {Answered(FileOf(JObj(o))) :
              o \in {GoodResponse(t) : t \in Tickers} \cup BadResponses
                    \cup StampedResponses(n)}

GoodConsistency ==
    [ticker |-> "BBCA", dataPoints |-> 2, trendVerdict |-> "STABLE",
     consistencyScore |-> 75, analysis |-> "a", actionItem |-> "i"]

ConsistencyResponses ==
    {Rejected, Answered(Garbage)}
    \cup {Answered(FileOf(JObj(o))) :
              o \in {GoodConsistency,
                     [GoodConsistency EXCEPT !.trendVerdict = "UNCLEAR"],
                     Without(GoodConsistency, "trendVerdict")}}

(***************************************************************************)
(* The inputs of analyzeStock.                                             *)
(***************************************************************************)
FundamentalKeys == {"roe", "der", "pbv", "per", "npm", "growth", "cfo", "fcf"}
BandarTextKeys ==
    {"orderBookBid", "orderBookAsk", "tradeBookBid", "tradeBookAsk",
     "topBrokers", "duration", "bandarAvgPrice"}
TopTextKeys == {"ticker", "price", "capital", "rawIntelligenceData"}

One == <<"1">>
BaseInput ==
    [ticker |-> One, price |-> One, capital |-> One,
     capitalTier |-> "RETAIL", riskProfile |-> "BALANCED",
     fundamentals |-> [k \in FundamentalKeys |-> One],
     bandarmology |-> ("brokerSummaryVal" :> 50) @@ [k \in BandarTextKeys |-> One],
     rawIntelligenceData |-> One]

\* values a user can type that occur nowhere else in the input or the template
MarkValues == {<<"7">>, <<"7", "8">>}

InputSet ==
    {BaseInput}
    \cup {[BaseInput EXCEPT ![k] = v] : k \in TopTextKeys, v \in MarkValues}
    \cup {[BaseInput EXCEPT !.fundamentals[k] = v] :
              k \in FundamentalKeys, v \in MarkValues}
    \cup {[BaseInput EXCEPT !.bandarmology[k] = v] :
              k \in BandarTextKeys, v \in MarkValues}
    \cup {[BaseInput EXCEPT !.bandarmology.brokerSummaryVal = n] : n \in {0, 100}}
    \cup {[BaseInput EXCEPT !.capitalTier = c] : c \in CapitalTiers}
    \cup {[BaseInput EXCEPT !.riskProfile = r] : r \in RiskProfiles}

\* StockAnalysisInput: every field, as the text its value interpolates to
FieldTexts(input) ==
    [k \in TopTextKeys |-> input[k]]
    @@ [k \in FundamentalKeys |-> input.fundamentals[k]]
    @@ [k \in BandarTextKeys |-> input.bandarmology[k]]
    @@ ("brokerSummaryVal" :> Decimal(input.bandarmology.brokerSummaryVal))
    @@ ("capitalTier" :> <<input.capitalTier>>)
    @@ ("riskProfile" :> <<input.riskProfile>>)

\* String.prototype.includes on texts
Includes(text, part) ==
    \E k \in 0..(Len(text) - Len(part)) :
        \A i \in 1..Len(part) : text[k + i] = part[i]

(***************************************************************************)
(* history.sort((a, b) => a.timestamp - b.timestamp)                       *)
(***************************************************************************)
MaxHistory == 3     \* a history holds at most this many entries
MaxStamp == 3       \* timestamps of history entries range over 1..MaxStamp

\* the histories runConsistencyCheck is invoked with: the i-th entry has the
\* i-th id, any ticker, and a timestamp or (an imported entry) none
HistoryEntries(i) ==
    {[id |-> randomUUID(i), ticker |-> t, timestamp |-> ts] :
         t \in Tickers, ts \in 1..MaxStamp}
    \cup {[id |-> randomUUID(i), ticker |-> t] : t \in Tickers}

HistorySet ==
    UNION {{h \in [1..n -> UNION {HistoryEntries(i) : i \in 1..n}] :
                \A i \in 1..n : h[i] \in HistoryEntries(i)} : n \in 0..MaxHistory}

\* the comparator returns NaN when a timestamp is undefined
ComparatorIsNaN(a, b) == ~HasTimestamp(a) \/ ~HasTimestamp(b)
ConsistentComparator(h) == \A i, j \in 1..Len(h) : ~ComparatorIsNaN(h[i], h[j])

\* stable insertion: e goes behind every element that does not compare greater
Insert(s, e) ==
    LET k == Cardinality({i \in 1..Len(s) : s[i].timestamp - e.timestamp <= 0})
    IN  SubSeq(s, 1, k) \o <<e>> \o SubSeq(s, k + 1, Len(s))

RECURSIVE StableSort(_)
StableSort(h) ==
    IF Len(h) = 0 THEN <<>>
    ELSE Insert(StableSort(SubSeq(h, 1, Len(h) - 1)), h[Len(h)])

Reorderings(h) ==
    {[i \in 1..Len(h) |-> h[p[i]]] :
         p \in {q \in [1..Len(h) -> 1..Len(h)] :
                    \A i, j \in 1..Len(h) : q[i] = q[j] => i = j}}

\* Array.prototype.sort: stable under a consistent comparator; with a
\* comparator that returns NaN the order is implementation-defined
SortOutcomes(h) ==
    IF ConsistentComparator(h) THEN {StableSort(h)} ELSE Reorderings(h)

(***************************************************************************)
(* geminiService: the two operations.                                      *)
(***************************************************************************)
\* the caller has taken the outcome of the invocation
GwTaken ==
    /\ gwPc \in {"returned", "thrown"}
    /\ gwPc' = "idle"
    /\ gwOp' = "none"
    /\ gwInput' = None
    /\ gwCalls' = <<>>
    /\ gwResponse' = None
    /\ gwResult' = None
    /\ UNCHANGED <<appVars, envVars, formVars, uiVars>>

\* analyzeStock up to its await: what the invocation does
AnalyzeStockBegin(input) ==
    /\ gwOp' = "analyze"
    /\ gwInput' = Some(input)
    /\ gwCalls' = <<AnalyzeRequest(input)>>
    /\ gwResponse' = None
    /\ gwResult' = None
    /\ gwPc' = "awaiting"

\* analyzeStock up to its await, invoked on its own
AnalyzeStock(input) ==
    /\ gwPc = "idle"
    /\ AnalyzeStockBegin(input)
    /\ UNCHANGED <<appVars, envVars, formVars, uiVars>>

\* the spread written last, { id, timestamp, sources, ...data }: the response wins
StampedResultResponseWins(data, id, ts) ==
    data @@ ("id" :> id) @@ ("timestamp" :> ts) @@ ("sources" :> <<>>)

\* { ...data, id: crypto.randomUUID(), timestamp: Date.now(), sources: [] }
StampedResult(data, id, ts) ==
    ("id" :> id) @@ ("timestamp" :> ts) @@ ("sources" :> <<>>) @@ data

\* analyzeStock after its await: what the invocation does
AnalyzeResume(resp) ==
    /\ gwPc = "awaiting" /\ gwOp = "analyze"
    /\ gwResponse' = Some(resp)
    /\ IF resp.kind = "reject" \/ ParseThrows(resp.text)
       THEN /\ gwPc' = "thrown"
            /\ gwResult' = None
            /\ UNCHANGED uuidCount
       ELSE /\ uuidCount < MaxUuid
            /\ uuidCount' = uuidCount + 1
            /\ gwResult' = Some(StampedResult(SpreadOf(JSONparse(resp.text)),
                                              randomUUID(uuidCount + 1), now))
            /\ gwPc' = "returned"
    /\ UNCHANGED <<now, gwOp, gwInput, gwCalls>>

\* analyzeStock after its await, invoked on its own
AnalyzeSettle(resp) ==
    /\ AnalyzeResume(resp)
    /\ UNCHANGED <<appVars, formVars, uiVars>>

\* runConsistencyCheck up to its await; sorted[0].ticker throws on []
RunConsistencyBegin(history) ==
    /\ gwOp' = "consistency"
    /\ gwInput' = Some(history)
    /\ gwResponse' = None
    /\ gwResult' = None
    /\ IF Len(history) = 0
       THEN gwCalls' = <<>> /\ gwPc' = "thrown"
       ELSE \E sorted \in SortOutcomes(history) :
                gwCalls' = <<ConsistencyRequest(sorted)>> /\ gwPc' = "awaiting"

\* runConsistencyCheck up to its await, invoked on its own
RunConsistencyCheck(history) ==
    /\ gwPc = "idle"
    /\ RunConsistencyBegin(history)
    /\ UNCHANGED <<appVars, envVars, formVars, uiVars>>

\* runConsistencyCheck after its await
ConsistencyResume(resp) ==
    /\ gwPc = "awaiting" /\ gwOp = "consistency"
    /\ gwResponse' = Some(resp)
    /\ IF resp.kind = "reject" \/ ParseThrows(resp.text)
       THEN gwPc' = "thrown" /\ gwResult' = None
       ELSE gwPc' = "returned" /\ gwResult' = Some(JSONparse(resp.text))
    /\ UNCHANGED <<gwOp, gwInput, gwCalls>>

\* runConsistencyCheck after its await, invoked on its own
ConsistencySettle(resp) ==
    /\ ConsistencyResume(resp)
    /\ UNCHANGED <<appVars, envVars, formVars, uiVars>>

VaultIdle ==
    /\ vaultCases = <<>> /\ storedVault = None /\ reader = None /\ alertMsg = <<>>
    /\ downloaded = None /\ selectedIds = <<>>

InitGateway ==
    /\ VaultIdle
    /\ uuidCount = 0
    /\ now = 1
    /\ GwIdle
    /\ FormIdle
    /\ UiIdle

NextGateway ==
    \/ \E input \in InputSet : AnalyzeStock(input)
    \/ \E resp \in AnalyzeResponses(uuidCount) : AnalyzeSettle(resp)
    \/ \E history \in HistorySet : RunConsistencyCheck(history)
    \/ \E resp \in ConsistencyResponses : ConsistencySettle(resp)
    \/ GwTaken
    \/ Tick

SpecGateway == InitGateway /\ [][NextGateway]_vars

\* analyzeStock alone
NextAnalyze ==
    \/ \E input \in InputSet : AnalyzeStock(input)
    \/ \E resp \in AnalyzeResponses(uuidCount) : AnalyzeSettle(resp)
    \/ GwTaken
    \/ Tick

SpecAnalyze == InitGateway /\ [][NextAnalyze]_vars

(***************************************************************************)
(* App: one UI session.  A click is a discrete event: React renders and    *)
(* runs the effects of its state updates before the next event is handled, *)
(* so each handler is one step taken from what the last render shows.      *)
(***************************************************************************)
MaxPending == 2     \* at most this many invocations are at their await

FailureMessage == <<"Analysis Failed. Ensure all data fields are valid and try again.">>

\* {view === 'LAB' && !analysis && !loading && <InputForm .../>}
InputFormRendered == view = "LAB" /\ analysis = None /\ ~loading

\* {view === 'LAB' && analysis && !loading && <AnalysisCard .../>}
AnalysisCardRendered == view = "LAB" /\ analysis # None /\ ~loading

\* {view === 'VAULT' && <CaseVault .../>}
CaseVaultRendered == view = "VAULT"

\* what the form hands to onSubmit: inputs that pass its four checks
SessionInputs ==
    {BaseInput, [BaseInput EXCEPT !.ticker = <<"7">>],
     [BaseInput EXCEPT !.riskProfile = "AGGRESSIVE"]}

\* what the inference service answers in a session
SessionResponses ==
    {Rejected, Answered(Garbage), Answered(FileOf(JNull)),
     Answered(FileOf(JObj(GoodResponse("BBCA")))),
     Answered(FileOf(JObj(Without(GoodResponse("BBCA"), "strategy")))),
     Answered(FileOf(JObj([GoodResponse("BBCA") EXCEPT
                               !.prediction.direction = "SIDEWAYS"])))}

\* { ...data, riskProfile: appConfig.riskProfile }, appConfig DEFAULT_CONFIG
Enriched(data) == [data EXCEPT !.riskProfile = "BALANCED"]

\* handleAnalysisSubmit without its setLoading(true)
handleAnalysisSubmitNotBusy(data) ==
    /\ InputFormRendered
    /\ pending < MaxPending
    /\ error' = None
    /\ analysis' = None
    /\ pending' = pending + 1
    /\ AnalyzeStockBegin(Enriched(data))
    /\ UNCHANGED <<appVars, envVars, formVars, view, loading,
                   checkingConsistency, consistencyResult>>

\* handleAnalysisSubmit up to its await: InputForm's onSubmit, which exists
\* while the form is rendered
handleAnalysisSubmit(data) ==
    /\ InputFormRendered
    /\ pending < MaxPending
    /\ loading' = TRUE
    /\ error' = None
    /\ analysis' = None
    /\ pending' = pending + 1
    /\ AnalyzeStockBegin(Enriched(data))
    /\ UNCHANGED <<appVars, envVars, formVars, view,
                   checkingConsistency, consistencyResult>>

\* handleAnalysisSubmit whose catch sends the request once more
handleAnalysisResumeRetries(resp) ==
    /\ pending > 0
    /\ gwPc = "awaiting" /\ gwOp = "analyze"
    /\ IF (resp.kind = "reject" \/ ParseThrows(resp.text)) /\ Len(gwCalls) = 1
       THEN /\ gwCalls' = Append(gwCalls, gwCalls[1])
            /\ gwResponse' = Some(resp)
            /\ UNCHANGED <<gwPc, gwOp, gwInput, gwResult, envVars, loading,
                           analysis, error, pending>>
       ELSE /\ AnalyzeResume(resp)
            /\ pending' = pending - 1
            /\ IF gwPc' = "thrown"
               THEN error' = Some(FailureMessage) /\ UNCHANGED analysis
               ELSE analysis' = gwResult' /\ UNCHANGED error
            /\ loading' = FALSE
    /\ UNCHANGED <<appVars, formVars, view, checkingConsistency, consistencyResult>>

\* handleAnalysisSubmit after its await: try, catch and finally
handleAnalysisResume(resp) ==
    /\ pending > 0
    /\ AnalyzeResume(resp)
    /\ pending' = pending - 1
    /\ IF gwPc' = "thrown"
       THEN error' = Some(FailureMessage) /\ UNCHANGED analysis
       ELSE analysis' = gwResult' /\ UNCHANGED error
    /\ loading' = FALSE
    /\ UNCHANGED <<appVars, formVars, view, checkingConsistency, consistencyResult>>

\* the sidebar's "Forensic Lab"
ShowLab ==
    /\ view # "LAB" \/ analysis # None
    /\ view' = "LAB"
    /\ analysis' = None
    /\ selectedIds' = <<>>      \* CaseVault is unmounted
    /\ UNCHANGED <<vaultCases, storedVault, reader, alertMsg, downloaded, envVars,
                   gwVars, formVars, loading, error, pending,
                   checkingConsistency, consistencyResult>>

\* the sidebar's "Case Vault" and "Global Mandate"
ShowView(v) ==
    /\ view # v
    /\ view' = v
    /\ selectedIds' = <<>>      \* CaseVault is mounted anew, or unmounted
    /\ UNCHANGED <<vaultCases, storedVault, reader, alertMsg, downloaded, envVars,
                   gwVars, formVars, loading, analysis, error, pending,
                   checkingConsistency, consistencyResult>>

\* CaseVault's "View": onLoadCase
onLoadCase(i) ==
    /\ CaseVaultRendered
    /\ i \in 1..Len(vaultCases)
    /\ analysis' = Some(vaultCases[i])
    /\ view' = "LAB"
    /\ selectedIds' = <<>>
    /\ UNCHANGED <<vaultCases, storedVault, reader, alertMsg, downloaded, envVars,
                   gwVars, formVars, loading, error, pending,
                   checkingConsistency, consistencyResult>>

\* the error box's "Try Again"
DismissError ==
    /\ view = "LAB"
    /\ error # None
    /\ error' = None
    /\ UNCHANGED <<appVars, envVars, gwVars, formVars, view, loading, analysis,
                   pending, checkingConsistency, consistencyResult>>

\* "Back to Inputs"
BackToInputs ==
    /\ AnalysisCardRendered
    /\ analysis' = None
    /\ UNCHANGED <<appVars, envVars, gwVars, formVars, view, loading, error,
                   pending, checkingConsistency, consistencyResult>>

\* AnalysisCard's "Save Case": onSave(data) with the analysis on screen
SaveCase ==
    /\ AnalysisCardRendered
    /\ SaveToVault(analysis[1])

\* CaseVault's delete button
DeleteCase(id) ==
    /\ CaseVaultRendered
    /\ RemoveFromVault(id)

NextSession ==
    \/ \E data \in SessionInputs : handleAnalysisSubmit(data)
    \/ \E resp \in SessionResponses : handleAnalysisResume(resp)
    \/ BackToInputs
    \/ SaveCase
    \/ DismissError
    \/ ShowLab
    \/ \E v \in {"VAULT", "CONFIG"} : ShowView(v)
    \/ \E i \in 1..MaxVault : onLoadCase(i)
    \/ \E id \in RemoveKeys : DeleteCase(id)
    \/ Tick

SpecSession == InitVault /\ [][NextSession]_vars

(***************************************************************************)
(* App and CaseVault: the consistency check dispatched from the vault view *)
(***************************************************************************)
\* the full-page overlays: the spinner and the consistency modal
Overlaid == checkingConsistency \/ consistencyResult # None

\* the button shown from one selected key on
AuditEnabledAtOne == Len(selectedIds) >= 1

\* {selectedIds.size >= 2 && <button ...>Audit Trend</button>}
AuditEnabled == Len(selectedIds) >= 2

\* the archive, were history the archive's own array: sorted in place
ArchiveIsHistory(cases, history) == StableSort(history)

\* what history.sort(...) does to the archive: history is the array that
\* cases.filter(...) returned, another array than vaultCases, and the sort
\* moves its elements without changing them
ArchiveAfterSort(cases, history) == cases

\* "Audit Trend": handleRunConsistency up to its await
AuditTrend ==
    /\ ~Overlaid
    /\ AuditEnabled
    /\ RunConsistencyBegin(SelectedCases)
    /\ vaultCases' = ArchiveAfterSort(vaultCases, SelectedCases)
    /\ IF gwPc' = "thrown"
       THEN /\ alertMsg' = <<"Failed to run consistency check.">>
            /\ checkingConsistency' = FALSE
       ELSE /\ checkingConsistency' = TRUE
            /\ UNCHANGED alertMsg
    /\ UNCHANGED <<storedVault, reader, downloaded, selectedIds, envVars, formVars,
                   view, loading, analysis, error, pending, consistencyResult>>

\* runConsistencyCheck after its await and handleRunConsistency after its
\* own: try, catch and finally.  The invocation is over once its outcome
\* has been taken.
AuditSettle(resp) ==
    /\ checkingConsistency
    /\ gwPc = "awaiting" /\ gwOp = "consistency"
    /\ IF resp.kind = "reject" \/ ParseThrows(resp.text)
       THEN /\ alertMsg' = <<"Failed to run consistency check.">>
            /\ UNCHANGED consistencyResult
       ELSE /\ consistencyResult' = Some(JSONparse(resp.text))
            /\ UNCHANGED alertMsg
    /\ checkingConsistency' = FALSE
    /\ gwPc' = "idle" /\ gwOp' = "none" /\ gwInput' = None
    /\ gwCalls' = <<>> /\ gwResponse' = None /\ gwResult' = None
    /\ UNCHANGED <<vaultCases, storedVault, reader, downloaded, selectedIds, envVars,
                   formVars, view, loading, analysis, error, pending>>

\* the modal's "Close Audit"
CloseAudit ==
    /\ consistencyResult # None
    /\ consistencyResult' = None
    /\ UNCHANGED <<appVars, envVars, gwVars, formVars, view, loading, analysis,
                   error, pending, checkingConsistency>>

\* the vault view: what the user does where no overlay covers the page, the
\* file read and the inference service at any time
NextAudit ==
    \/ ~Overlaid /\ \E i \in 1..MaxVault : ToggleSelection(i)
    \/ ~Overlaid /\ VaultRemount
    \/ ~Overlaid /\ \E t \in Tickers : SaveFresh(t)
    \/ ~Overlaid /\ \E id \in RemoveKeys : RemoveFromVault(id)
    \/ ~Overlaid /\ \E file \in SelectFiles : HandleImportVault(file)
    \/ ReaderOnload
    \/ AuditTrend
    \/ \E resp \in ConsistencyResponses : AuditSettle(resp)
    \/ CloseAudit

SpecAudit == InitVault /\ [][NextAudit]_vars

(***************************************************************************)
(* InputForm                                                               *)
(***************************************************************************)
RawThreshold == 50     \* rawIntelligenceData.length > 50

Empty == <<>>
INITIAL_STATE ==
    [ticker |-> Empty, price |-> Empty, capital |-> Empty,
     capitalTier |-> "RETAIL", riskProfile |-> "BALANCED",
     fundamentals |-> [k \in FundamentalKeys |-> Empty],
     bandarmology |-> ("brokerSummaryVal" :> 50) @@ [k \in BandarTextKeys |-> Empty],
     rawIntelligenceData |-> Empty]

\* a text of n characters
TextOfLength(n) == [i \in 1..n |-> "x"]

\* String.prototype.toUpperCase, on the letters the model types
UpperChar(c) ==
    IF c = "b" THEN "B" ELSE IF c = "c" THEN "C" ELSE IF c = "a" THEN "A"
    ELSE IF c = "z" THEN "Z" ELSE IF c = "p" THEN "P" ELSE c
toUpperCase(text) == [i \in 1..Len(text) |-> UpperChar(text[i])]

\* what the user can type in the fields the form renders: the arguments
\* (section, field, value) each onChange hands to handleChange
Typed ==
    {<<"", "ticker", toUpperCase(v)>> : v \in {Empty, <<"b", "b", "c", "a">>}}
    \cup {<<"", "price", v>> : v \in {Empty, <<"9">>}}
    \cup {<<"", "capital", v>> : v \in {Empty, <<"5">>}}
    \cup {<<"fundamentals", k, v>> : k \in FundamentalKeys, v \in {Empty, <<"2">>}}
    \cup {<<"bandarmology", "topBrokers", toUpperCase(v)>> : v \in {Empty, <<"z", "p">>}}
    \cup {<<"bandarmology", "bandarAvgPrice", v>> : v \in {Empty, <<"8">>}}
    \cup {<<"", "rawIntelligenceData", TextOfLength(n)>> :
              n \in {0, RawThreshold, RawThreshold + 1}}

\* the form is on screen (it is unmounted once it has handed its input over)
FormMounted == formPc # "handed"

(***************************************************************************)
(* InputForm: the capital validation effect and the draft effect           *)
(***************************************************************************)
NaN == <<>>
IsDigit(c) == \E d \in 1..Len(DigitChars) : DigitChars[d] = c
DigitValue(c) == (CHOOSE d \in 1..Len(DigitChars) : DigitChars[d] = c) - 1

\* how many leading characters of the text are digits
DigitPrefix(text) ==
    Cardinality({n \in 1..Len(text) : \A i \in 1..n : IsDigit(text[i])})

RECURSIVE DigitsToNumber(_, _)
DigitsToNumber(text, n) ==
    IF n = 0 THEN 0
    ELSE DigitsToNumber(text, n - 1) * 10 + DigitValue(text[n])

\* parseFloat on texts of digits and letters: the number its leading digits
\* write, NaN when it has none
parseFloat(text) ==
    IF DigitPrefix(text) = 0 THEN NaN
    ELSE Some(DigitsToNumber(text, DigitPrefix(text)))

\* x > n and x < n for a number-or-NaN x: both false on NaN
Greater(x, n) == x # NaN /\ x[1] > n
Less(x, n) == x # NaN /\ x[1] < n

\* the thresholds moved by one: >= and <= in place of > and <
CapitalWarningInclusive(capital, tier) ==
    IF capital = Empty THEN None
    ELSE LET amount == parseFloat(capital) IN
         IF tier = "MICRO" /\ Greater(amount, 149999999)
         THEN Some("CRITICAL: Nominal modal terlalu besar untuk Tier MICRO.")
         ELSE IF tier = "RETAIL" /\ Greater(amount, 599999999)
         THEN Some("WARNING: Modal Anda mendekati High Net Worth. Pertimbangkan upgrade Tier.")
         ELSE IF tier = "INSTITUTIONAL" /\ Less(amount, 1000000001)
         THEN Some("INVALID: Tier Institutional butuh modal minimal 1 Miliar.")
         ELSE None

\* the body of the capital validation effect: what it sets capitalWarning to
CapitalWarning(capital, tier) ==
    IF capital = Empty THEN None
    ELSE LET amount == parseFloat(capital) IN
         IF tier = "MICRO" /\ Greater(amount, 150000000)
         THEN Some("CRITICAL: Nominal modal terlalu besar untuk Tier MICRO.")
         ELSE IF tier = "RETAIL" /\ Greater(amount, 600000000)
         THEN Some("WARNING: Modal Anda mendekati High Net Worth. Pertimbangkan upgrade Tier.")
         ELSE IF tier = "INSTITUTIONAL" /\ Less(amount, 1000000000)
         THEN Some("INVALID: Tier Institutional butuh modal minimal 1 Miliar.")
         ELSE None

\* the effects that run after setFormData(data): the capital validation (its
\* dependencies are capital and capitalTier; it computes from the current
\* values) and the draft effect (data is a new object, never INITIAL_STATE)
DraftText(data) == [wellFormed |-> TRUE, indent |-> 0, json |-> JObj(data)]

FormEffects(data) ==
    /\ capitalWarning' = CapitalWarning(data.capital, data.capitalTier)
    /\ storedDraft' = Some(DraftText(data))

handleChange(section, field, value) ==
    /\ FormMounted
    /\ LET data == IF section # ""
                   THEN [formData EXCEPT ![section][field] = value]
                   ELSE [formData EXCEPT ![field] = value]
       IN  /\ data # formData      \* onChange fires when the value changes
           /\ formData' = data
           /\ FormEffects(data)
    /\ formPc' = "idle"
    /\ UNCHANGED <<step, submitted, appVars, envVars, gwVars, uiVars>>

\* step 4 compared with >= instead of >
isStepValidOffByOne(s) ==
    IF s = 1 THEN formData.ticker # Empty /\ formData.price # Empty
                  /\ formData.capital # Empty
    ELSE IF s = 2 THEN \A k \in DOMAIN formData.fundamentals :
                           formData.fundamentals[k] # Empty
    ELSE IF s = 3 THEN formData.bandarmology.topBrokers # Empty
                       /\ formData.bandarmology.bandarAvgPrice # Empty
    ELSE IF s = 4 THEN Len(formData.rawIntelligenceData) >= RawThreshold
    ELSE FALSE

isStepValid(s) ==
    IF s = 1 THEN formData.ticker # Empty /\ formData.price # Empty
                  /\ formData.capital # Empty
    ELSE IF s = 2 THEN \A k \in DOMAIN formData.fundamentals :
                           formData.fundamentals[k] # Empty
    ELSE IF s = 3 THEN formData.bandarmology.topBrokers # Empty
                       /\ formData.bandarmology.bandarAvgPrice # Empty
    ELSE IF s = 4 THEN Len(formData.rawIntelligenceData) > RawThreshold
    ELSE FALSE

\* the step indicators: onClick={() => setStep(s)}
SetStep(s) ==
    /\ FormMounted
    /\ s # step
    /\ step' = s
    /\ formPc' = "idle"
    /\ UNCHANGED <<formData, submitted, capitalWarning, storedDraft, appVars, envVars, gwVars, uiVars>>

\* "Next", disabled={!isStepValid(step)}
NextStep ==
    /\ FormMounted
    /\ step < 4
    /\ isStepValid(step)
    /\ step' = step + 1
    /\ formPc' = "idle"
    /\ UNCHANGED <<formData, submitted, capitalWarning, storedDraft, appVars, envVars, gwVars, uiVars>>

\* "Back"
BackStep ==
    /\ FormMounted
    /\ step > 1
    /\ step' = step - 1
    /\ formPc' = "idle"
    /\ UNCHANGED <<formData, submitted, capitalWarning, storedDraft, appVars, envVars, gwVars, uiVars>>

\* handleReset that leaves the warning of the discarded input on screen
handleResetStale ==
    /\ FormMounted
    /\ formData' = [INITIAL_STATE EXCEPT !.capitalTier = "RETAIL",
                                         !.riskProfile = "BALANCED"]
    /\ storedDraft' = Some(DraftText(formData'))
    /\ step' = 1
    /\ formPc' = "idle"
    /\ UNCHANGED <<capitalWarning, submitted, appVars, envVars, gwVars, uiVars>>

\* handleReset, confirmed (defaultConfig is DEFAULT_CONFIG): the draft is
\* removed, and written again by the draft effect that the new formData runs
handleReset ==
    /\ FormMounted
    /\ LET data == [INITIAL_STATE EXCEPT !.capitalTier = "RETAIL",
                                         !.riskProfile = "BALANCED"]
       IN  formData' = data /\ FormEffects(data)
    /\ step' = 1
    /\ formPc' = "idle"
    /\ UNCHANGED <<submitted, appVars, envVars, gwVars, uiVars>>

\* the form's onSubmit, fired by the submit button, which exists at step 4
\* and is disabled={loading || !isStepValid(4)}
FormOnSubmit ==
    /\ FormMounted
    /\ step = 4
    /\ isStepValid(4)
    /\ IF isStepValid(1) /\ isStepValid(2) /\ isStepValid(3) /\ isStepValid(4)
       THEN submitted' = Some(formData) /\ formPc' = "handed"
       ELSE submitted' = submitted /\ formPc' = "ignored"
    /\ UNCHANGED <<formData, step, capitalWarning, storedDraft, appVars, envVars, gwVars, uiVars>>

\* what a mounting form arrives at: useState(INITIAL_STATE), then the mount
\* effect's { ...prev, ...parsed } of the draft, or the default config's
\* tier and profile when there is no draft
MountedFrom(draft) ==
    IF draft = None
    THEN [INITIAL_STATE EXCEPT !.capitalTier = "RETAIL", !.riskProfile = "BALANCED"]
    ELSE IF ParseThrows(draft[1]) THEN INITIAL_STATE
    ELSE SpreadOf(JSONparse(draft[1])) @@ INITIAL_STATE

\* the effects of a mount: setFormData always makes a new object
Mount ==
    /\ formData' = MountedFrom(storedDraft)
    /\ FormEffects(MountedFrom(storedDraft))
    /\ step' = 1
    /\ submitted' = None
    /\ formPc' = "idle"
    /\ UNCHANGED <<appVars, envVars, gwVars, uiVars>>

\* the form is mounted again after the analysis
FormRemount ==
    /\ formPc = "handed"
    /\ Mount

\* the page is loaded again while the form is on screen
FormReload ==
    /\ FormMounted
    /\ Mount

\* the form after its first mount, nothing in localStorage before it
InitForm ==
    /\ VaultIdle
    /\ uuidCount = 0
    /\ now = 1
    /\ GwIdle
    /\ UiIdle
    /\ formData = MountedFrom(None)
    /\ step = 1
    /\ submitted = None
    /\ formPc = "idle"
    /\ capitalWarning = CapitalWarning(formData.capital, formData.capitalTier)
    /\ storedDraft = Some(DraftText(formData))

NextForm ==
    \/ \E e \in Typed : handleChange(e[1], e[2], e[3])
    \/ \E s \in 1..4 : SetStep(s)
    \/ NextStep
    \/ BackStep
    \/ handleReset
    \/ FormOnSubmit
    \/ FormRemount
    \/ FormReload

SpecForm == InitForm /\ [][NextForm]_vars

(***************************************************************************)
(* InputForm, step 1: capital and tier                                     *)
(***************************************************************************)
\* the amounts typed into "Total Capital (IDR)": around each threshold
CapitalAmounts ==
    {0, 149999999, 150000000, 150000001, 500000000, 600000000, 600000001,
     999999999, 1000000000, 1000000001, 2000000000}

\* what the user types into the capital field (a text input) and the tier
\* buttons
CapitalTyped ==
    {<<"", "capital", v>> :
         v \in {Decimal(n) : n \in CapitalAmounts}
               \cup {Empty, <<"a", "b", "c">>, <<"5", "x">>}}
    \cup {<<"", "capitalTier", t>> : t \in CapitalTiers}

NextCapital ==
    \/ \E e \in CapitalTyped : handleChange(e[1], e[2], e[3])
    \/ \E s \in 1..4 : SetStep(s)
    \/ handleReset
    \/ FormReload

SpecCapital == InitForm /\ [][NextCapital]_vars

(***************************************************************************)
(* The claims.                                                             *)
(***************************************************************************)

\* C1: in every state reachable by add, remove and import, no two archive
\* entries have the same identity key (id, falling back to ticker).
C1_IdentityKeysUnique ==
    \A i, j \in 1..Len(vaultCases) :
        i # j => IdentityKey(vaultCases[i]) # IdentityKey(vaultCases[j])

\* the snapshot parses to an array with an element that is no result-shaped record
PartlyMalformed(file) ==
    /\ ~ParseThrows(file)
    /\ IsArray(JSONparse(file))
    /\ \E i \in 1..Len(JSONparse(file).items) : ~ResultShaped(JSONparse(file).items[i])

\* C2: an import whose snapshot is an array with at least one element that is
\* not a result-shaped record fails with an error and leaves the archive, in
\* memory and persisted, as it was.
C2_ImportAllOrNothing ==
    [][(reader # None /\ reader' = None /\ PartlyMalformed(reader[1].file))
           => /\ vaultCases' = vaultCases
              /\ storedVault' = storedVault
              /\ alertMsg' = <<"Invalid JSON file.">>]_vars

\* the precondition of runConsistencyCheck
SameTicker(h) == \A i, j \in 1..Len(h) : h[i].ticker = h[j].ticker
Precondition(h) == Len(h) >= 2 /\ SameTicker(h)

\* C3: runConsistencyCheck on a history with fewer than 2 entries, or with
\* more than one ticker, fails and issues no inference call.
C3_PreconditionEnforced ==
    (gwOp = "consistency" /\ ~Precondition(gwInput[1]))
        => (gwPc = "thrown" /\ gwCalls = <<>>)

\* C4: a parsed response that lacks a required key or uses a value outside an
\* enumerated set is never returned by analyze / runConsistencyCheck.
C4_InvalidResponseFails ==
    gwPc = "returned"
        => IF gwOp = "analyze"
           THEN MatchesResponseSchema(JSONparse(gwResponse[1].text))
           ELSE MatchesConsistencySchema(JSONparse(gwResponse[1].text))

\* C5: the prompt analyze composes contains the value of every field of its
\* input as a substring.
C5_PromptHasEveryField ==
    (gwOp = "analyze" /\ gwCalls # <<>>)
        => \A k \in DOMAIN FieldTexts(gwInput[1]) :
               Includes(gwCalls[1].contents, FieldTexts(gwInput[1])[k])

DecodingKeys == {"temperature", "topK", "topPTenths", "seed"}
DecodingOf(call) ==
    [k \in DOMAIN call.config \cap DecodingKeys |-> call.config[k]]

\* C6: every outbound inference call carries temperature 0.0, top-k 1,
\* top-p 0.1 and the fixed seed.
C6_FixedDecoding ==
    \A i \in 1..Len(gwCalls) :
        DecodingOf(gwCalls[i])
            = [temperature |-> 0, topK |-> 1, topPTenths |-> 1, seed |-> 42069]

\* C7: the id and timestamp of the result a successful analyze returns are the
\* id drawn and the clock read at that moment, whatever id or timestamp the
\* response carried; the id differs from the response's.
C7_LocalIdentity ==
    [][(gwOp = "analyze" /\ gwPc = "awaiting" /\ gwPc' = "returned")
           => LET result == gwResult'[1]
                  data == SpreadOf(JSONparse(gwResponse'[1].text))
              IN  /\ uuidCount' = uuidCount + 1
                  /\ result.id = randomUUID(uuidCount')
                  /\ result.timestamp = now
                  /\ "id" \in DOMAIN data => result.id # data.id]_vars

\* analyze has returned a result for a response that had an id and a
\* timestamp of its own, the timestamp another than the clock's
C7_Witness ==
    /\ gwOp = "analyze" /\ gwPc = "returned"
    /\ LET data == SpreadOf(JSONparse(gwResponse[1].text)) IN
       /\ "id" \in DOMAIN data
       /\ "timestamp" \in DOMAIN data
       /\ data.timestamp # gwResult[1].timestamp

\* the history serialized into the consistency request
SentHistory ==
    LET items == JSONparse(gwCalls[1].contents[4]).items
    IN  [i \in 1..Len(items) |-> items[i].o]
PositionIn(h, e) == CHOOSE i \in 1..Len(h) : h[i] = e

\* C8: the serialized history is a permutation of the input history, in
\* ascending timestamp order, entries with equal timestamps in their original
\* relative order.
C8_SortedStable ==
    (gwOp = "consistency" /\ gwCalls # <<>>)
        => LET h == gwInput[1]
               sent == SentHistory
           IN  /\ Len(sent) = Len(h)
               /\ \A i \in 1..Len(h) : \E j \in 1..Len(sent) : sent[j] = h[i]
               /\ \A i, j \in 1..Len(sent) :
                      (i < j /\ HasTimestamp(sent[i]) /\ HasTimestamp(sent[j]))
                          => /\ sent[i].timestamp <= sent[j].timestamp
                             /\ sent[i].timestamp = sent[j].timestamp
                                    => PositionIn(h, sent[i]) < PositionIn(h, sent[j])

\* the submission-eligibility conditions
Eligible(d) ==
    /\ d.ticker # <<>> /\ d.price # <<>> /\ d.capital # <<>>
    /\ \A k \in {"roe", "der", "pbv", "per", "npm", "growth", "cfo", "fcf"} :
           d.fundamentals[k] # <<>>
    /\ d.bandarmology.topBrokers # <<>>
    /\ d.bandarmology.bandarAvgPrice # <<>>
    /\ Len(d.rawIntelligenceData) > 50

\* C9: an input is handed to the analysis handler only when, at that moment,
\* ticker, price, capital, the eight fundamentals, top brokers and average
\* price are non-empty and rawIntelligenceData is longer than 50.
C9_HandedOnlyWhenEligible ==
    /\ submitted # None => Eligible(submitted[1])
    /\ formPc = "handed" => submitted = Some(formData)

\* an input whose rawIntelligenceData has 51 characters has been handed over
C9_Witness ==
    /\ formPc = "handed"
    /\ submitted # None
    /\ Len(submitted[1].rawIntelligenceData) = 51

\* C10: a submission attempted while an eligibility condition is unmet is
\* answered with a validation error shown to the user, not dropped silently.
C10_RefusalReported ==
    formPc = "ignored" => alertMsg # <<>>

\* the capital field holds the decimal text of the amount c
CapitalIs(c) == formData.capital = Decimal(c)

\* C11: for a non-empty numeric capital c and tier t the advisory shown is:
\* the MICRO advisory when t is MICRO and c > 150,000,000; the RETAIL advisory
\* when t is RETAIL and c > 600,000,000; the INSTITUTIONAL advisory when t is
\* INSTITUTIONAL and c < 1,000,000,000; none in every other case.
C11_CapitalFitRules ==
    \A c \in CapitalAmounts :
        CapitalIs(c) =>
            LET t == formData.capitalTier IN
            IF t = "MICRO" /\ c > 150000000
            THEN capitalWarning = <<"CRITICAL: Nominal modal terlalu besar untuk Tier MICRO.">>
            ELSE IF t = "RETAIL" /\ c > 600000000
            THEN capitalWarning = <<"WARNING: Modal Anda mendekati High Net Worth. Pertimbangkan upgrade Tier.">>
            ELSE IF t = "INSTITUTIONAL" /\ c < 1000000000
            THEN capitalWarning = <<"INVALID: Tier Institutional butuh modal minimal 1 Miliar.">>
            ELSE capitalWarning = <<>>

\* capital 2,000,000,000 in tier RETAIL shows the RETAIL advisory
C11_Witness ==
    /\ CapitalIs(2000000000)
    /\ formData.capitalTier = "RETAIL"
    /\ capitalWarning = <<"WARNING: Modal Anda mendekati High Net Worth. Pertimbangkan upgrade Tier.">>

\* C12: after any sequence of edits, resets and draft restores, the advisory
\* shown is the capital-fit function of the current capital and tier.
C12_AdvisoryOfCurrentInput ==
    capitalWarning = CapitalWarning(formData.capital, formData.capitalTier)

\* capital and tier have both been edited since the RETAIL default: whichever
\* came first, an advisory was or was not showing in between, and none is now
C12_Witness ==
    /\ formData.capitalTier = "INSTITUTIONAL"
    /\ CapitalIs(1000000000)
    /\ capitalWarning = None

\* the part of an archive entry that is its content: all but id and timestamp
Content(c) == [k \in DOMAIN c \ {"id", "timestamp"} |-> c[k]]
ArchiveIds(cases) == {cases[i].id : i \in {k \in 1..Len(cases) : "id" \in DOMAIN cases[k]}}

\* what add(result) is to make of the archive
Added(result) ==
    /\ Len(vaultCases') = Len(vaultCases) + 1
    /\ Tail(vaultCases') = vaultCases
    /\ Content(Head(vaultCases')) = Content(result)
    /\ {"id", "timestamp"} \subseteq DOMAIN Head(vaultCases')
    /\ Head(vaultCases').id \notin ArchiveIds(vaultCases)
    /\ "id" \in DOMAIN result => Head(vaultCases').id # result.id
    /\ Head(vaultCases').timestamp = now

\* C13: add(result) puts one new entry at the front, with the result's
\* content, an id no entry and not the result has, and the current
\* timestamp; the entries archived before follow it unchanged, in order.
C13_AddPrepends ==
    [][/\ \A t \in Tickers :
              SaveFresh(t) => Added(GatewayResult(t, randomUUID(uuidCount + 1), now))
       /\ \A i \in 1..MaxVault :
              SaveLoaded(i) => Added(vaultCases[i])]_vars

\* an archived case has been viewed and saved again: the archive holds two
\* entries of the same content under different ids
C13_Witness ==
    /\ Len(vaultCases) >= 2
    /\ Content(vaultCases[1]) = Content(vaultCases[2])
    /\ vaultCases[1].id # vaultCases[2].id
    /\ alertMsg = <<"Snapshot archived to Vault successfully.">>

\* C14: remove(key) drops the entries whose identity key is key and leaves
\* the others as they were, in order; with no such entry the archive is
\* left as it was.
C14_RemoveByKey ==
    [][\A key \in RemoveKeys :
           RemoveFromVault(key)
               => /\ vaultCases' = SelectSeq(vaultCases, LAMBDA c : IdentityKey(c) # key)
                  /\ (\A i \in 1..Len(vaultCases) : IdentityKey(vaultCases[i]) # key)
                         => vaultCases' = vaultCases]_vars

\* the first entry saved is the only one left: every uuid has been drawn,
\* so an entry saved after it has been removed from in front of it
C14_Witness ==
    /\ Len(vaultCases) = 1
    /\ vaultCases[1].id = randomUUID(2)
    /\ uuidCount = MaxUuid
    /\ storedVault = Some(JSONstringify(vaultCases, 0))
    /\ alertMsg = <<"Snapshot archived to Vault successfully.">>

\* the file being read parses to an array that json.map runs through
ImportSucceeds ==
    /\ reader # None /\ reader' = None
    /\ ~ParseThrows(reader[1].file)
    /\ IsArray(JSONparse(reader[1].file))
    /\ ~MapThrows(JSONparse(reader[1].file).items)

\* C15: a successful import yields the existing entries, unchanged and in
\* order, followed by the snapshot's entries in snapshot order; an imported
\* entry without an id gets a fresh one, one with an id is kept as it is.
C15_ImportAppends ==
    [][ImportSucceeds
           => LET items == JSONparse(reader[1].file).items
                  n == Len(vaultCases)
              IN  /\ Len(vaultCases') = n + Len(items)
                  /\ SubSeq(vaultCases', 1, n) = vaultCases
                  /\ \A i \in 1..Len(items) :
                         IF HasId(items[i].o)
                         THEN vaultCases'[n + i] = items[i].o
                         ELSE /\ Content(vaultCases'[n + i]) = Content(items[i].o)
                              /\ HasId(vaultCases'[n + i])
                              /\ vaultCases'[n + i].id \notin ArchiveIds(vaultCases)]_vars

\* the file being read parses, to something that is not an array
TopLevelNotArray ==
    /\ reader # None /\ reader' = None
    /\ reader[1].file.wellFormed
    /\ reader[1].file.json.t # "arr"

\* C16: an import file that parses as JSON but is not an array at its top
\* level is rejected with an error shown to the user.
C16_NonArrayReported ==
    [][TopLevelNotArray => alertMsg' = <<"Invalid JSON file.">>]_vars

\* C17: an import whose file does not parse as JSON, or is not an array at
\* its top level, leaves the archive in memory and the persisted blob as
\* they were.
C17_RejectedImportChangesNothing ==
    [][(reader # None /\ reader' = None
        /\ (~reader[1].file.wellFormed \/ reader[1].file.json.t # "arr"))
           => vaultCases' = vaultCases /\ storedVault' = storedVault]_vars

\* a file that does not parse has been rejected while the archive held a case
C17_Witness ==
    /\ reader = None
    /\ alertMsg = <<"Invalid JSON file.">>
    /\ Len(vaultCases) = 1
    /\ vaultCases[1].id = randomUUID(2)
    /\ storedVault = Some(JSONstringify(vaultCases, 0))

\* C18: importing an exported file into an empty archive yields the entries
\* the file lists, as many, in the same order, with the same field values,
\* ids included: exporting again gives the same file.
C18_ExportImportRoundTrip ==
    [][(reader # None /\ reader' = None
        /\ reader[1].vaultCases = <<>> /\ vaultCases = <<>>)
           => LET items == reader[1].file.json.items IN
              /\ Len(vaultCases') = Len(items)
              /\ \A i \in 1..Len(items) : vaultCases'[i] = items[i].o
              /\ ExportedFile' = reader[1].file]_vars

\* an archive of two entries has been exported, emptied and imported again
C18_Witness ==
    /\ Len(vaultCases) = 2
    /\ downloaded = Some(ExportedFile)
    /\ alertMsg = <<"Successfully imported ", 2, " cases.">>
    /\ reader = None

\* C19: in the vault view, the selected archive entries (those whose
\* identity key is in the selection, which is what the consistency check is
\* handed) all have one ticker.
C19_SelectionOneTicker ==
    \A i, j \in 1..Len(SelectedCases) :
        SelectedCases[i].ticker = SelectedCases[j].ticker

\* the identity keys the entries of an archive have
KeysOf(cases) == {IdentityKey(cases[i]) : i \in 1..Len(cases)}

\* C20: every selected key is the identity key of an entry in the archive;
\* a remove or an import in the vault view drops from the selection the keys
\* that no entry has any more, and no other key.
C20_SelectionSynchronized ==
    [][/\ \A k \in 1..Len(selectedIds') : selectedIds'[k] \in KeysOf(vaultCases')
       /\ ((\E id \in RemoveKeys : RemoveFromVault(id)) \/ ReaderOnload)
              => \A k \in 1..Len(selectedIds) :
                     selectedIds[k] \in KeysOf(vaultCases')
                         => InSelection(selectedIds', selectedIds[k])]_vars

\* two cases were selected and one of them has been removed: the other is
\* still selected, alone
C20_Witness ==
    /\ Len(vaultCases) = 1
    /\ selectedIds = <<IdentityKey(vaultCases[1])>>
    /\ storedVault = Some(JSONstringify(vaultCases, 0))
    /\ alertMsg = <<"Successfully imported ", 2, " cases.">>

\* C21: at most one analyze call is pending at any time, the busy flag is
\* set whenever one is pending, and no step taken while the busy flag is
\* set (changing the view, loading a vault case, dismissing an error)
\* starts another.
C21_OneCallInFlight ==
    /\ [](pending <= 1 /\ (pending > 0 => loading))
    /\ [][loading => pending' <= pending]_vars

\* a call is pending while an archived case, loaded from the vault in the
\* meantime, is in the LAB view
C21_Witness ==
    /\ pending = 1
    /\ loading
    /\ view = "LAB"
    /\ analysis # None
    /\ gwPc = "awaiting"

\* C22: an analyze invocation hands exactly one request to the inference
\* service; only a submit by the user puts a call in flight, so a call that
\* failed (rejected, or answered by a body that does not parse) is followed
\* by no further call, and after the failure nothing is pending.
C22_OneCallNoRetry ==
    /\ [](gwOp = "analyze" => Len(gwCalls) = 1)
    /\ [][(gwCalls' # gwCalls \/ (gwPc' = "awaiting" /\ gwPc # "awaiting"))
              => \E data \in SessionInputs : handleAnalysisSubmit(data)]_vars
    /\ [](gwPc = "thrown" => pending = 0 /\ ~loading)

\* the body of the answer did not parse: the failure is on screen, one
\* request was sent
C22_Witness ==
    /\ gwPc = "thrown"
    /\ gwResponse = Some(Answered(Garbage))
    /\ Len(gwCalls) = 1
    /\ error = Some(FailureMessage)
    /\ pending = 0

\* the three kinds of failure of an analyze call
FailedCall(resp) ==
    \/ resp.kind = "reject"
    \/ ParseThrows(resp.text)
    \/ ~MatchesResponseSchema(JSONparse(resp.text))

\* C23: whatever the kind of failure of an analyze call (the call is
\* rejected, the body does not parse, the body breaks the schema), the fixed
\* failure message is set, no result is on display, the busy flag is cleared
\* and the archive, in memory and persisted, is as it was.
C23_OneGenericFailure ==
    [][\A resp \in SessionResponses :
           (FailedCall(resp) /\ handleAnalysisResume(resp))
               => /\ error' = Some(FailureMessage)
                  /\ analysis' = None
                  /\ ~loading'
                  /\ vaultCases' = vaultCases
                  /\ storedVault' = storedVault]_vars

\* C24: a confirmed reset leaves no form draft in storage, and none appears
\* until the user next edits a field (so a reload right after the reset
\* finds no draft to restore).
C24_DraftAbsentAfterReset ==
    /\ [][handleReset => storedDraft' = None]_vars
    /\ [][(storedDraft = None /\ storedDraft' # None)
              => \E e \in CapitalTyped : handleChange(e[1], e[2], e[3])]_vars

\* C25: an import merges into the archive as it is when the file read
\* completes: the entries archived at that moment, those added since the
\* file was picked included and those removed since excluded, are the
\* entries before the imported ones, in memory and in the persisted blob.
C25_ImportMergesIntoCurrent ==
    [][ImportSucceeds
           => LET n == Len(vaultCases)
                  k == Len(JSONparse(reader[1].file).items)
              IN  /\ Len(vaultCases') = n + k
                  /\ \A i \in 1..n : vaultCases'[i] = vaultCases[i]
                  /\ storedVault' = Some(JSONstringify(vaultCases', 0))]_vars

\* C26: in every state, from the first load on, the persisted vault blob is
\* the serialization of exactly the in-memory archive (nothing persisted
\* only while the archive is empty), so that loading the page again gives
\* the entries and identity keys there are.
C26_PersistedMirror ==
    /\ IF storedVault = None
       THEN vaultCases = <<>>
       ELSE storedVault = Some(JSONstringify(vaultCases, 0))
    /\ LET loaded == LoadedCases(storedVault, uuidCount, now)
       IN  /\ Len(loaded) = Len(vaultCases)
           /\ \A i \in 1..Len(loaded) :
                  IdentityKey(loaded[i]) = IdentityKey(vaultCases[i])

\* C27: every entry of the in-memory archive has a non-empty id, so that
\* its identity key is its id and never its ticker.
C27_EveryEntryHasId ==
    \A i \in 1..Len(vaultCases) :
        HasId(vaultCases[i]) /\ IdentityKey(vaultCases[i]) = vaultCases[i].id

\* the archive holds an entry loaded from a blob written without ids and
\* an entry imported from a file without ids, each under a drawn id
C27_Witness ==
    /\ storedVault # Some(StoredBefore)
    /\ Len(vaultCases) = 2
    /\ Content(vaultCases[1]) = Content(LegacyEntry)
    /\ vaultCases[1].id = randomUUID(1)
    /\ Content(vaultCases[2]) = Content(LegacyEntry)
    /\ vaultCases[2].id = randomUUID(2)
    /\ alertMsg = <<"Successfully imported ", 1, " cases.">>

\* C28: every entry of the in-memory archive has a timestamp, however it
\* arrived (load, add, import).
C28_EveryEntryHasTimestamp ==
    \A i \in 1..Len(vaultCases) : HasTimestamp(vaultCases[i])

\* C29: a consistency check, from its dispatch to its success or failure,
\* leaves the in-memory archive as it was (same entries, same order, the
\* result not among them) and does not rewrite the persisted vault blob.
C29_CheckLeavesArchive ==
    [][(AuditTrend \/ \E resp \in ConsistencyResponses : AuditSettle(resp))
           => vaultCases' = vaultCases /\ storedVault' = storedVault]_vars

\* a check of two entries archived newest first, so that the sort reversed
\* the history, has returned its result
C29_Witness ==
    /\ consistencyResult = Some(JObj(GoodConsistency))
    /\ ~checkingConsistency
    /\ Len(selectedIds) = 2
    /\ Len(vaultCases) = 2
    /\ vaultCases[1].timestamp > vaultCases[2].timestamp
    /\ storedVault = Some(JSONstringify(vaultCases, 0))

\* C30: every selected key matches an archive entry, and the history a
\* dispatch from the vault view passes holds at least 2 archive entries.
C30_DispatchAtLeastTwo ==
    /\ [](\A k \in 1..Len(selectedIds) :
              \E i \in 1..Len(vaultCases) : IdentityKey(vaultCases[i]) = selectedIds[k])
    /\ [][AuditTrend
              => /\ Len(gwInput'[1]) >= 2
                 /\ \A k \in 1..Len(gwInput'[1]) :
                        \E i \in 1..Len(vaultCases) : vaultCases[i] = gwInput'[1][k]]_vars

\* a check has been dispatched after an entry was deleted and another
\* imported while two keys were selected
C30_Witness ==
    /\ checkingConsistency
    /\ gwPc = "awaiting"
    /\ Len(gwInput[1]) = 2
    /\ \E k \in 1..2 : gwInput[1][k].id = "ext-3"
    /\ \E k \in 1..2 : gwInput[1][k].id \in {randomUUID(n) : n \in 1..MaxUuid}

====
